---- MODULE Spec2Model ----
(***************************************************************************)
(* Model of src/server.js: the account, login and password-reset routes of *)
(* the Express application, the users table they share, the clock and the  *)
(* mail transport.  Every route handler is cut at the awaits that touch    *)
(* shared state (a query of the pool, a dispatch of the transporter): the  *)
(* code between two such awaits runs without yielding and is one action.   *)
(***************************************************************************)
EXTENDS Integers, Sequences, FiniteSets, Bags, TLC

VARIABLES
    users,    \* the rows of table users, in insertion order
    now,      \* the clock, in milliseconds (Date.now())
    inflight, \* per request slot: the continuation of a handler awaiting
    reply,    \* the HTTP response sent by the latest step (status 0: none)
    mail,     \* the transporter.sendMail call of the latest step (NULL: none)
    spent,    \* the code a ResetPassword was last answered 200 with, since the
              \* latest UPDATE of a code (NULL: none)
    game_stats, \* the rows of table game_stats, in insertion order
    submitted   \* per user and game: the bag of the scores of the /stats/update requests answered 200

statsVars == <<game_stats, submitted>>
vars == <<users, now, inflight, reply, mail, spent, game_stats, submitted>>

----------------------------------------------------------------------------
(* Bounds of the model *)

\* the clock stops at MaxClock
MaxClock == 900001

\* the requests that may be in flight at once
Reqs == {1, 2}

Names == {"", "Ana"}
Emails == {"", "ana@x.com", "bob@x.com"}
\* the emails Register is submitted with: bob@x.com never gets an account
RegisterEmails == {"", "ana@x.com"}
Passwords == {"", "secret1", "secret2"}
NewPasswords == {"", "abc12", "secret1", "secret2"}
Salts == {"s1", "s2"}
\* Math.floor(Math.random() * 900000): the extremes of 0 .. 899999
RandomOffsets == {0, 899999}
\* the clock advances by the validity of a code, or by 1 ms more
ClockSteps == {15 * 60 * 1000, 15 * 60 * 1000 + 1}

\* the statistics routes: at most MaxUpdates /stats/update requests get past
\* the middleware, and the clock stops at MaxDayClock
MaxUpdates == 2
MaxDayClock == 86400000
\* the clock advances by the validity of a token, or by 1 ms less
DaySteps == {24 * 60 * 60 * 1000 - 1, 24 * 60 * 60 * 1000}
\* the users that hold tokens, and the games they play
UserIds == {1, 2}
GameTypes == {"matematica", "historia"}

----------------------------------------------------------------------------
(* Values *)

\* SQL NULL / a missing JSON field, and a present value
NULL == <<>>
Some(v) == <<v>>

Idle == [pc |-> "idle"]
NoReply == [status |-> 0, body |-> [msg |-> ""]]
Msg(status, text) == [status |-> status, body |-> [msg |-> text]]

JWT_SECRET == "secret-key"

\* Number.prototype.toString for a non-negative integer: its decimal digits
DigitChar(d) ==
    CASE d = 0 -> "0" [] d = 1 -> "1" [] d = 2 -> "2" [] d = 3 -> "3"
      [] d = 4 -> "4" [] d = 5 -> "5" [] d = 6 -> "6" [] d = 7 -> "7"
      [] d = 8 -> "8" [] d = 9 -> "9"

RECURSIVE NumberToString(_)
NumberToString(n) ==
    IF n < 10 THEN <<DigitChar(n)>>
    ELSE Append(NumberToString(n \div 10), DigitChar(n % 10))

\* the decimal string s read back as a number
DigitChars == {"0", "1", "2", "3", "4", "5", "6", "7", "8", "9"}
DigitValue(ch) == CHOOSE d \in 0 .. 9 : DigitChar(d) = ch
RECURSIVE ParseDigits(_)
ParseDigits(str) ==
    IF str = <<>> THEN 0
    ELSE 10 * ParseDigits(SubSeq(str, 1, Len(str) - 1)) + DigitValue(str[Len(str)])

\* the longest prefix of str made of decimal digits
RECURSIVE LeadingDigits(_)
LeadingDigits(str) ==
    IF str = <<>> \/ str[1] \notin DigitChars THEN <<>>
    ELSE <<str[1]>> \o LeadingDigits(Tail(str))

\* a JSON value of a request body: a number, a string (its characters) or
\* a field that is missing
JsonNumber(n) == [type |-> "number", value |-> n]
JsonString(chars) == [type |-> "string", value |-> chars]
JsonUndefined == [type |-> "undefined"]

\* NaN
NaN == <<>>

\* parseInt(v, 10) of a body field: a whole number is itself; of a string
\* (one that starts with no blank), the sign and the leading digits count,
\* and without a digit it is NaN
parseInt(v) ==
    IF v.type = "number" THEN Some(v.value)
    ELSE IF v.type = "undefined" THEN NaN
    ELSE LET neg == v.value # <<>> /\ v.value[1] = "-"
             signed == v.value # <<>> /\ v.value[1] \in {"-", "+"}
             digits == LeadingDigits(IF signed THEN Tail(v.value) ELSE v.value)
         IN  IF digits = <<>> THEN NaN
             ELSE IF neg THEN Some(0 - ParseDigits(digits))
             ELSE Some(ParseDigits(digits))

\* parseFloat(v) of a body field; the durations of the model are whole
\* hours, on which parseFloat reads what parseInt reads
parseFloat(v) == parseInt(v)

\* x || 0 for a number x: NaN and 0 are falsy
OrZero(x) == IF x = NaN THEN 0 ELSE x[1]

\* a code drawn from 10000 on: five digits for the small offsets
generateResetCodeShort(k) == NumberToString(10000 + k)

\* generateResetCode with Math.floor(Math.random() * 900000) = k
generateResetCode(k) == NumberToString(100000 + k)

\* the reset tokens a client may submit: none, or one of the codes
Tokens == {<<>>} \cup {generateResetCode(k) : k \in RandomOffsets}

\* bcrypt.hash(password, 10) with the salt drawn for this call
bcryptHash(password, salt) == [alg |-> "bcrypt", cost |-> 10, salt |-> salt, digest |-> <<salt, password>>]

\* bcrypt.compare(password, hash)
bcryptCompare(password, hash) == hash.digest = <<hash.salt, password>>

\* jwt.sign({id, email}, secret, {expiresIn: "1d"}) at clock t (claims in seconds)
jwtSign(payload, secret, t) ==
    [payload |-> [id |-> payload.id, email |-> payload.email,
                  iat |-> t \div 1000, exp |-> (t \div 1000) + 24 * 60 * 60],
     sig |-> secret]

\* a token signed without the id of the row (the id of no user)
generateTokenNoId(user, t) == jwtSign([id |-> 0, email |-> user.email], JWT_SECRET, t)

generateToken(user, t) == jwtSign([id |-> user.id, email |-> user.email], JWT_SECRET, t)

\* a token string that is no JWT: it has not the three parts of one
NotAJwt(text) == [text |-> text]

\* a verification that does not look at the expiry
jwtVerifyIgnoresExpiry(token, secret, t) ==
    IF "sig" \notin DOMAIN token THEN NULL
    ELSE IF token.sig # secret THEN NULL
    ELSE Some(token.payload)

\* jwt.verify(token, secret) at clock t: the claims, or NULL on the errors
\* jwt malformed, invalid signature and jwt expired
jwtVerify(token, secret, t) ==
    IF "sig" \notin DOMAIN token THEN NULL
    ELSE IF token.sig # secret THEN NULL
    ELSE IF (t \div 1000) >= token.payload.exp THEN NULL
    ELSE Some(token.payload)

----------------------------------------------------------------------------
(* The users table *)

\* SELECT ... FROM users WHERE email = $1
SelectByEmail(tbl, email) == SelectSeq(tbl, LAMBDA row : row.email = email)

\* the UNIQUE constraint on users.email of the persisted schema
EmailIsUnique == TRUE

\* INSERT INTO users (name, email, password_hash) ... RETURNING id, name, email
InsertUser(tbl, name, email, hash) ==
    Append(tbl, [id |-> Len(tbl) + 1, name |-> name, email |-> email,
                 password_hash |-> hash,
                 reset_token |-> NULL, reset_expires |-> NULL])

\* a write of the code that gives way to a code that is stored already
UpdateResetKeepsPending(tbl, code, expires, id) ==
    [i \in DOMAIN tbl |->
        IF tbl[i].id = id /\ tbl[i].reset_token = NULL
        THEN [tbl[i] EXCEPT !.reset_token = Some(code), !.reset_expires = Some(expires)]
        ELSE tbl[i]]

\* UPDATE users SET reset_token = $1, reset_expires = $2 WHERE id = $3
UpdateReset(tbl, code, expires, id) ==
    [i \in DOMAIN tbl |->
        IF tbl[i].id = id
        THEN [tbl[i] EXCEPT !.reset_token = Some(code), !.reset_expires = Some(expires)]
        ELSE tbl[i]]

\* a reset that forgets to clear reset_expires
UpdatePasswordKeepsExpiry(tbl, hash, id) ==
    [i \in DOMAIN tbl |->
        IF tbl[i].id = id
        THEN [tbl[i] EXCEPT !.password_hash = hash, !.reset_token = NULL]
        ELSE tbl[i]]

\* UPDATE users SET password_hash = $1, reset_token = NULL, reset_expires = NULL WHERE id = $2
UpdatePassword(tbl, hash, id) ==
    [i \in DOMAIN tbl |->
        IF tbl[i].id = id
        THEN [tbl[i] EXCEPT !.password_hash = hash, !.reset_token = NULL, !.reset_expires = NULL]
        ELSE tbl[i]]

\* new Date(user.reset_expires).getTime(): new Date(null) is the epoch
DateOf(expires) == IF expires = NULL THEN 0 ELSE expires[1]

----------------------------------------------------------------------------
(* The game_stats table *)

\* SELECT * FROM game_stats WHERE user_id = $1 AND game_type = $2
SelectStats(tbl, userId, gameType) ==
    SelectSeq(tbl, LAMBDA row : row.user_id = userId /\ row.game_type = gameType)

\* SELECT ... FROM game_stats WHERE user_id = $1
SelectStatsOf(tbl, userId) == SelectSeq(tbl, LAMBDA row : row.user_id = userId)

\* INSERT INTO game_stats (user_id, game_type, total_hours, high_score, total_score)
InsertStats(tbl, userId, gameType, hours, high, total) ==
    Append(tbl, [id |-> Len(tbl) + 1, user_id |-> userId, game_type |-> gameType,
                 total_hours |-> hours, high_score |-> high, total_score |-> total])

\* UPDATE game_stats SET total_hours = $1, total_score = $2, high_score = $3 WHERE id = $4
UpdateStats(tbl, hours, total, high, id) ==
    [i \in DOMAIN tbl |->
        IF tbl[i].id = id
        THEN [tbl[i] EXCEPT !.total_hours = hours, !.total_score = total, !.high_score = high]
        ELSE tbl[i]]

\* no /stats/update request has been answered yet
NoScores == [pair \in UserIds \X GameTypes |-> EmptyBag]

----------------------------------------------------------------------------
Init ==
    /\ users = <<>>
    /\ now = 0
    /\ inflight = [r \in Reqs |-> Idle]
    /\ reply = NoReply
    /\ mail = NULL
    /\ spent = NULL
    /\ game_stats = <<>>
    /\ submitted = NoScores

----------------------------------------------------------------------------
(* POST /auth/register *)

\* a register that does not look for the email
RegisterChecksNoDuplicate(tbl, name, email, password) ==
    IF name = "" \/ email = "" \/ password = "" THEN Msg(400, "Preencha todos os campos.")
    ELSE NoReply

\* the response of the checks before the INSERT (NoReply: all passed)
RegisterChecks(tbl, name, email, password) ==
    IF name = "" \/ email = "" \/ password = "" THEN Msg(400, "Preencha todos os campos.")
    ELSE IF Len(SelectByEmail(tbl, email)) > 0 THEN Msg(400, "Email já cadastrado.")
    ELSE NoReply

\* the handler up to its INSERT: shape check, SELECT by email, duplicate check
RegisterRecv(r, name, email, password) ==
    /\ inflight[r].pc = "idle"
    /\ mail' = NULL /\ now' = now /\ users' = users
    /\ reply' = RegisterChecks(users, name, email, password)
    /\ IF RegisterChecks(users, name, email, password) = NoReply
       THEN inflight' = [inflight EXCEPT ![r] =
                [pc |-> "reg_insert", name |-> name, email |-> email, password |-> password]]
       ELSE inflight' = inflight
    /\ spent' = spent
    /\ UNCHANGED statsVars

\* bcrypt.hash, the INSERT and the 201 (or the catch block when the INSERT throws)
RegisterInsert(r, salt) ==
    /\ inflight[r].pc = "reg_insert"
    /\ mail' = NULL /\ now' = now
    /\ inflight' = [inflight EXCEPT ![r] = Idle]
    /\ LET c == inflight[r]
           hash == bcryptHash(c.password, salt)
       IN  IF EmailIsUnique /\ Len(SelectByEmail(users, c.email)) > 0
           THEN /\ users' = users
                /\ reply' = Msg(500, "Erro no servidor.")
           ELSE /\ users' = InsertUser(users, c.name, c.email, hash)
                /\ reply' = [status |-> 201,
                             body |-> [msg |-> "Conta criada com sucesso.",
                                       user |-> [id |-> Len(users) + 1, name |-> c.name, email |-> c.email]]]
    /\ spent' = spent
    /\ UNCHANGED statsVars

----------------------------------------------------------------------------
(* POST /auth/login *)

\* a login that is refused while a reset code is stored
LoginReplyBlocksPending(tbl, t, email, password) ==
    IF email = "" \/ password = "" THEN Msg(400, "Preencha todos os campos.")
    ELSE LET rows == SelectByEmail(tbl, email)
         IN  IF Len(rows) = 0 THEN Msg(400, "Credenciais incorretas.")
             ELSE IF rows[1].reset_token # NULL \/ ~bcryptCompare(password, rows[1].password_hash)
             THEN Msg(400, "Credenciais incorretas.")
             ELSE [status |-> 200,
                   body |-> [token |-> generateToken(rows[1], t),
                             user |-> [id |-> rows[1].id, name |-> rows[1].name, email |-> rows[1].email]]]

\* a login that tells an unknown email from a wrong password
LoginReplyLeaky(tbl, t, email, password) ==
    IF email = "" \/ password = "" THEN Msg(400, "Preencha todos os campos.")
    ELSE LET rows == SelectByEmail(tbl, email)
         IN  IF Len(rows) = 0 THEN Msg(400, "Email não encontrado.")
             ELSE IF ~bcryptCompare(password, rows[1].password_hash)
             THEN Msg(400, "Credenciais incorretas.")
             ELSE [status |-> 200,
                   body |-> [token |-> generateToken(rows[1], t),
                             user |-> [id |-> rows[1].id, name |-> rows[1].name, email |-> rows[1].email]]]

\* the response of the handler on table tbl at clock t
LoginReply(tbl, t, email, password) ==
    IF email = "" \/ password = "" THEN Msg(400, "Preencha todos os campos.")
    ELSE LET rows == SelectByEmail(tbl, email)
         IN  IF Len(rows) = 0 THEN Msg(400, "Credenciais incorretas.")
             ELSE IF ~bcryptCompare(password, rows[1].password_hash)
             THEN Msg(400, "Credenciais incorretas.")
             ELSE [status |-> 200,
                   body |-> [token |-> generateToken(rows[1], t),
                             user |-> [id |-> rows[1].id, name |-> rows[1].name, email |-> rows[1].email]]]

Login(email, password) ==
    /\ reply' = LoginReply(users, now, email, password)
    /\ mail' = NULL
    /\ UNCHANGED <<users, now, inflight>>
    /\ spent' = spent
    /\ UNCHANGED statsVars

----------------------------------------------------------------------------
(* POST /auth/forgot-password *)

\* the response of the checks before the UPDATE (NoReply: all passed)
ForgotChecks(tbl, email) ==
    IF email = "" THEN Msg(400, "Informe o email.")
    ELSE IF Len(SelectByEmail(tbl, email)) = 0 THEN Msg(400, "Email não encontrado.")
    ELSE NoReply

\* the handler up to its UPDATE: shape check, SELECT, code and expiry drawn
ForgotRecv(r, email, k) ==
    /\ inflight[r].pc = "idle"
    /\ mail' = NULL /\ now' = now /\ users' = users
    /\ reply' = ForgotChecks(users, email)
    /\ IF ForgotChecks(users, email) = NoReply
       THEN inflight' = [inflight EXCEPT ![r] =
                [pc |-> "fp_update", email |-> email,
                 user |-> [id |-> SelectByEmail(users, email)[1].id,
                           name |-> SelectByEmail(users, email)[1].name],
                 code |-> generateResetCode(k),
                 expires |-> now + 15 * 60 * 1000]]
       ELSE inflight' = inflight
    /\ spent' = spent
    /\ UNCHANGED statsVars

\* the UPDATE of reset_token and reset_expires
ForgotUpdate(r) ==
    /\ inflight[r].pc = "fp_update"
    /\ mail' = NULL /\ now' = now
    /\ reply' = NoReply
    /\ LET c == inflight[r]
       IN  /\ users' = UpdateReset(users, c.code, c.expires, c.user.id)
           /\ inflight' = [inflight EXCEPT ![r] =
                  [pc |-> "fp_mail", email |-> c.email, user |-> c.user, code |-> c.code]]
    /\ spent' = NULL
    /\ UNCHANGED statsVars

\* the message handed to transporter.sendMail by continuation c, and whether
\* the transport delivered it
MailCall(c, delivered) ==
    [to |-> c.email, name |-> c.user.name, code |-> c.code, delivered |-> delivered]

\* transporter.sendMail resolves, then the 200
ForgotMail(r) ==
    /\ inflight[r].pc = "fp_mail"
    /\ users' = users /\ now' = now
    /\ mail' = Some(MailCall(inflight[r], TRUE))
    /\ reply' = Msg(200, "Código enviado para o email.")
    /\ inflight' = [inflight EXCEPT ![r] = Idle]
    /\ spent' = spent
    /\ UNCHANGED statsVars

\* a catch block that takes the code back when the mail fails
ForgotMailFailsRollsBack(r) ==
    /\ inflight[r].pc = "fp_mail"
    /\ now' = now
    /\ users' = [i \in DOMAIN users |->
            IF users[i].id = inflight[r].user.id
            THEN [users[i] EXCEPT !.reset_token = NULL, !.reset_expires = NULL]
            ELSE users[i]]
    /\ mail' = Some(MailCall(inflight[r], FALSE))
    /\ reply' = Msg(500, "Erro ao enviar email.")
    /\ inflight' = [inflight EXCEPT ![r] = Idle]
    /\ spent' = spent
    /\ UNCHANGED statsVars

\* transporter.sendMail rejects: the catch block
ForgotMailFails(r) ==
    /\ inflight[r].pc = "fp_mail"
    /\ users' = users /\ now' = now
    /\ mail' = Some(MailCall(inflight[r], FALSE))
    /\ reply' = Msg(500, "Erro ao enviar email.")
    /\ inflight' = [inflight EXCEPT ![r] = Idle]
    /\ spent' = spent
    /\ UNCHANGED statsVars

----------------------------------------------------------------------------
(* POST /auth/reset-password *)

\* a reset whose code expires at its expiry already (>= for >)
ResetChecksExpiresEarly(tbl, t, email, token, newPassword) ==
    IF email = "" \/ token = <<>> \/ newPassword = "" THEN Msg(400, "Dados incompletos.")
    ELSE IF Len(newPassword) < 6 THEN Msg(400, "Senha curta demais.")
    ELSE LET rows == SelectByEmail(tbl, email)
         IN  IF Len(rows) = 0 THEN Msg(400, "Usuário não encontrado.")
             ELSE IF Some(token) # rows[1].reset_token THEN Msg(400, "Código inválido.")
             ELSE IF t >= DateOf(rows[1].reset_expires) THEN Msg(400, "Código expirado.")
             ELSE NoReply

\* a reset that does not look at the expiry
ResetChecksNoExpiry(tbl, t, email, token, newPassword) ==
    IF email = "" \/ token = <<>> \/ newPassword = "" THEN Msg(400, "Dados incompletos.")
    ELSE IF Len(newPassword) < 6 THEN Msg(400, "Senha curta demais.")
    ELSE LET rows == SelectByEmail(tbl, email)
         IN  IF Len(rows) = 0 THEN Msg(400, "Usuário não encontrado.")
             ELSE IF Some(token) # rows[1].reset_token THEN Msg(400, "Código inválido.")
             ELSE NoReply

\* a reset that looks at the expiry before the code
ResetChecksExpiryFirst(tbl, t, email, token, newPassword) ==
    IF email = "" \/ token = <<>> \/ newPassword = "" THEN Msg(400, "Dados incompletos.")
    ELSE IF Len(newPassword) < 6 THEN Msg(400, "Senha curta demais.")
    ELSE LET rows == SelectByEmail(tbl, email)
         IN  IF Len(rows) = 0 THEN Msg(400, "Usuário não encontrado.")
             ELSE IF t > DateOf(rows[1].reset_expires) THEN Msg(400, "Código expirado.")
             ELSE IF Some(token) # rows[1].reset_token THEN Msg(400, "Código inválido.")
             ELSE NoReply

\* the response of the checks before the UPDATE (NoReply: all passed)
ResetChecks(tbl, t, email, token, newPassword) ==
    IF email = "" \/ token = <<>> \/ newPassword = "" THEN Msg(400, "Dados incompletos.")
    ELSE IF Len(newPassword) < 6 THEN Msg(400, "Senha curta demais.")
    ELSE LET rows == SelectByEmail(tbl, email)
         IN  IF Len(rows) = 0 THEN Msg(400, "Usuário não encontrado.")
             ELSE IF Some(token) # rows[1].reset_token THEN Msg(400, "Código inválido.")
             ELSE IF t > DateOf(rows[1].reset_expires) THEN Msg(400, "Código expirado.")
             ELSE NoReply

\* a reset that drops the pending code when a wrong one is submitted
ResetRecvBurnsCode(r, email, token, newPassword) ==
    /\ inflight[r].pc = "idle"
    /\ mail' = NULL /\ now' = now
    /\ reply' = ResetChecks(users, now, email, token, newPassword)
    /\ IF ResetChecks(users, now, email, token, newPassword) = Msg(400, "Código inválido.")
       THEN users' = [i \in DOMAIN users |->
                IF users[i].email = email
                THEN [users[i] EXCEPT !.reset_token = NULL, !.reset_expires = NULL]
                ELSE users[i]]
       ELSE users' = users
    /\ IF ResetChecks(users, now, email, token, newPassword) = NoReply
       THEN inflight' = [inflight EXCEPT ![r] =
                [pc |-> "rp_update",
                 user |-> [id |-> SelectByEmail(users, email)[1].id,
                           reset_token |-> SelectByEmail(users, email)[1].reset_token,
                           reset_expires |-> SelectByEmail(users, email)[1].reset_expires],
                 token |-> token, newPassword |-> newPassword]]
       ELSE inflight' = inflight
    /\ spent' = spent
    /\ UNCHANGED statsVars

\* the handler up to its UPDATE
ResetRecv(r, email, token, newPassword) ==
    /\ inflight[r].pc = "idle"
    /\ mail' = NULL /\ now' = now /\ users' = users
    /\ reply' = ResetChecks(users, now, email, token, newPassword)
    /\ IF ResetChecks(users, now, email, token, newPassword) = NoReply
       THEN inflight' = [inflight EXCEPT ![r] =
                [pc |-> "rp_update",
                 user |-> [id |-> SelectByEmail(users, email)[1].id,
                           reset_token |-> SelectByEmail(users, email)[1].reset_token,
                           reset_expires |-> SelectByEmail(users, email)[1].reset_expires],
                 token |-> token, newPassword |-> newPassword]]
       ELSE inflight' = inflight
    /\ spent' = spent
    /\ UNCHANGED statsVars

\* bcrypt.hash, the UPDATE of the password and the 200
ResetUpdate(r, salt) ==
    /\ inflight[r].pc = "rp_update"
    /\ mail' = NULL /\ now' = now
    /\ LET c == inflight[r]
       IN  users' = UpdatePassword(users, bcryptHash(c.newPassword, salt), c.user.id)
    /\ reply' = Msg(200, "Senha alterada com sucesso.")
    /\ inflight' = [inflight EXCEPT ![r] = Idle]
    /\ spent' = Some([id |-> inflight[r].user.id, token |-> inflight[r].token,
                      expires |-> inflight[r].user.reset_expires])
    /\ UNCHANGED statsVars

----------------------------------------------------------------------------
\* time passes
Tick(d) ==
    /\ now + d <= MaxClock
    /\ now' = now + d
    /\ reply' = NoReply
    /\ mail' = NULL
    /\ UNCHANGED <<users, inflight>>
    /\ spent' = spent
    /\ UNCHANGED statsVars

Next ==
    \/ \E r \in Reqs, n \in Names, e \in RegisterEmails, p \in Passwords : RegisterRecv(r, n, e, p)
    \/ \E r \in Reqs, s \in Salts : RegisterInsert(r, s)
    \/ \E e \in Emails, p \in Passwords : Login(e, p)
    \/ \E r \in Reqs, e \in Emails, k \in RandomOffsets : ForgotRecv(r, e, k)
    \/ \E r \in Reqs : ForgotUpdate(r)
    \/ \E r \in Reqs : ForgotMail(r)
    \/ \E r \in Reqs : ForgotMailFails(r)
    \/ \E r \in Reqs, e \in Emails, t \in Tokens, p \in NewPasswords : ResetRecv(r, e, t, p)
    \/ \E r \in Reqs, s \in Salts : ResetUpdate(r, s)
    \/ \E d \in ClockSteps : Tick(d)

Spec == Init /\ [][Next]_vars

----------------------------------------------------------------------------
(* A query of the pool that rejects: the catch block of each route.  A     *)
(* query that rejects has written nothing.                                 *)

\* register: the SELECT by email rejects
RegisterSelectFails(r, name, email, password) ==
    /\ inflight[r].pc = "idle"
    /\ name # "" /\ email # "" /\ password # ""
    /\ reply' = Msg(500, "Erro no servidor.")
    /\ mail' = NULL
    /\ UNCHANGED <<users, now, inflight>>
    /\ spent' = spent
    /\ UNCHANGED statsVars

\* register: the INSERT rejects
RegisterInsertFails(r) ==
    /\ inflight[r].pc = "reg_insert"
    /\ reply' = Msg(500, "Erro no servidor.")
    /\ mail' = NULL
    /\ inflight' = [inflight EXCEPT ![r] = Idle]
    /\ UNCHANGED <<users, now>>
    /\ spent' = spent
    /\ UNCHANGED statsVars

\* login: the SELECT by email rejects
LoginSelectFails(email, password) ==
    /\ email # "" /\ password # ""
    /\ reply' = Msg(500, "Erro no servidor.")
    /\ mail' = NULL
    /\ UNCHANGED <<users, now, inflight>>
    /\ spent' = spent
    /\ UNCHANGED statsVars

\* forgot-password: the SELECT by email rejects
ForgotSelectFails(r, email) ==
    /\ inflight[r].pc = "idle"
    /\ email # ""
    /\ reply' = Msg(500, "Erro ao enviar email.")
    /\ mail' = NULL
    /\ UNCHANGED <<users, now, inflight>>
    /\ spent' = spent
    /\ UNCHANGED statsVars

\* a handler that goes on to the dispatch when its UPDATE has rejected
ForgotUpdateFailsStillMails(r) ==
    /\ inflight[r].pc = "fp_update"
    /\ reply' = Msg(200, "Código enviado para o email.")
    /\ mail' = Some(MailCall(inflight[r], TRUE))
    /\ inflight' = [inflight EXCEPT ![r] = Idle]
    /\ UNCHANGED <<users, now>>
    /\ spent' = spent
    /\ UNCHANGED statsVars

\* forgot-password: the UPDATE of the code rejects, and the dispatch is skipped
ForgotUpdateFails(r) ==
    /\ inflight[r].pc = "fp_update"
    /\ reply' = Msg(500, "Erro ao enviar email.")
    /\ mail' = NULL
    /\ inflight' = [inflight EXCEPT ![r] = Idle]
    /\ UNCHANGED <<users, now>>
    /\ spent' = spent
    /\ UNCHANGED statsVars

\* reset-password: the SELECT by email rejects
ResetSelectFails(r, email, token, newPassword) ==
    /\ inflight[r].pc = "idle"
    /\ email # "" /\ token # <<>> /\ newPassword # ""
    /\ Len(newPassword) >= 6
    /\ reply' = Msg(500, "Erro no servidor.")
    /\ mail' = NULL
    /\ UNCHANGED <<users, now, inflight>>
    /\ spent' = spent
    /\ UNCHANGED statsVars

\* reset-password: the UPDATE of the password rejects
ResetUpdateFails(r) ==
    /\ inflight[r].pc = "rp_update"
    /\ reply' = Msg(500, "Erro no servidor.")
    /\ mail' = NULL
    /\ inflight' = [inflight EXCEPT ![r] = Idle]
    /\ UNCHANGED <<users, now>>
    /\ spent' = spent
    /\ UNCHANGED statsVars

\* the routes with a store that may fail
FaultNext ==
    \/ Next
    \/ \E r \in Reqs, n \in Names, e \in RegisterEmails, p \in Passwords : RegisterSelectFails(r, n, e, p)
    \/ \E r \in Reqs : RegisterInsertFails(r)
    \/ \E e \in Emails, p \in Passwords : LoginSelectFails(e, p)
    \/ \E r \in Reqs, e \in Emails : ForgotSelectFails(r, e)
    \/ \E r \in Reqs : ForgotUpdateFails(r)
    \/ \E r \in Reqs, e \in Emails, t \in Tokens, p \in NewPasswords : ResetSelectFails(r, e, t, p)
    \/ \E r \in Reqs : ResetUpdateFails(r)

FaultSpec == Init /\ [][FaultNext]_vars

----------------------------------------------------------------------------
(* The bearer middleware and the statistics routes *)

\* the accounts of the users that hold tokens
StatsUsers ==
    InsertUser(InsertUser(<<>>, "Ana", "ana@x.com", bcryptHash("secret1", "s1")),
               "Bob", "bob@x.com", bcryptHash("secret2", "s2"))

\* the authorization headers a client may send, each as its parts between
\* blanks: no header, a scheme alone, and a scheme with a token that is
\* empty, no JWT, signed with another secret, or issued by a login at clock 0
AuthHeaders ==
    {<<>>, <<"Bearer">>, <<"Bearer", NotAJwt("")>>, <<"Bearer", NotAJwt("abc")>>}
    \cup {<<"Bearer", jwtSign([id |-> 1, email |-> "ana@x.com"], "other-key", 0)>>}
    \cup {<<"Bearer", generateToken(StatsUsers[i], 0)>> : i \in DOMAIN StatsUsers}

\* the score and duration fields of the bodies a client may send
Scores == {JsonString(<<"1", "2", "p", "x">>), JsonUndefined}
Durations == {JsonNumber(2)}

\* authenticateToken on the header and clock t: the response it sends, or
\* NoReply and req.user when it calls next()
authenticateToken(header, t) ==
    LET token == IF Len(header) >= 2 THEN Some(header[2]) ELSE NULL
    IN  IF token = NULL \/ token[1] = NotAJwt("")
        THEN [reply |-> Msg(401, "Acesso negado."), user |-> NULL]
        ELSE IF jwtVerify(token[1], JWT_SECRET, t) = NULL
        THEN [reply |-> Msg(403, "Token inválido."), user |-> NULL]
        ELSE [reply |-> NoReply, user |-> jwtVerify(token[1], JWT_SECRET, t)]

\* the number of /stats/update requests that have got past the middleware
RECURSIVE AnsweredIn(_)
AnsweredIn(pairs) ==
    IF pairs = {} THEN 0
    ELSE LET pair == CHOOSE x \in pairs : TRUE
         IN  BagCardinality(submitted[pair]) + AnsweredIn(pairs \ {pair})

StatsAccepted ==
    AnsweredIn(UserIds \X GameTypes) + Cardinality({r \in Reqs : inflight[r].pc = "su_write"})

\* a request to /stats/update or /stats/me that the middleware answers
\* itself: next() is not called and the handler of the route does not run
BearerRefuses(header) ==
    /\ authenticateToken(header, now).reply # NoReply
    /\ reply' = authenticateToken(header, now).reply
    /\ mail' = NULL
    /\ UNCHANGED <<users, now, inflight, spent, game_stats, submitted>>

\* POST /stats/update up to its write, once the middleware has called
\* next(): the numbers of the body and the SELECT of the row of this user
\* and game
StatsUpdateRecv(r, header, gameType, score, duration) ==
    /\ inflight[r].pc = "idle"
    /\ authenticateToken(header, now).reply = NoReply
    /\ StatsAccepted < MaxUpdates
    /\ mail' = NULL /\ now' = now /\ users' = users /\ spent' = spent
    /\ game_stats' = game_stats /\ submitted' = submitted
    /\ reply' = NoReply
    /\ LET user == authenticateToken(header, now).user[1]
       IN  inflight' = [inflight EXCEPT ![r] =
               [pc |-> "su_write", user |-> user, gameType |-> gameType,
                numScore |-> OrZero(parseInt(score)),
                numDuration |-> OrZero(parseFloat(duration)),
                rows |-> SelectStats(game_stats, user.id, gameType)]]

\* POST /stats/update: the INSERT when the SELECT found no row, else the
\* UPDATE of the row it found, and the 200
StatsUpdateWrite(r) ==
    /\ inflight[r].pc = "su_write"
    /\ mail' = NULL /\ now' = now /\ users' = users /\ spent' = spent
    /\ LET c == inflight[r]
       IN  /\ IF Len(c.rows) = 0
              THEN game_stats' = InsertStats(game_stats, c.user.id, c.gameType,
                                             c.numDuration, c.numScore, c.numScore)
              ELSE LET current == c.rows[1]
                       newTotalHours == current.total_hours + c.numDuration
                       newTotalScore == current.total_score + c.numScore
                       newHighScore == IF c.numScore > current.high_score
                                       THEN c.numScore ELSE current.high_score
                   IN  game_stats' = UpdateStats(game_stats, newTotalHours, newTotalScore,
                                                 newHighScore, current.id)
           /\ submitted' = [submitted EXCEPT ![<<c.user.id, c.gameType>>] = @ (+) SetToBag({c.numScore})]
    /\ reply' = Msg(200, "Stats updated")
    /\ inflight' = [inflight EXCEPT ![r] = Idle]

\* the games of a profile
KnownGames == {"matematica", "computacao", "portugues", "historia"}

\* the value a profile shows for a game: of the last row of the game, or 0
ProfileValue(rows, game, column) ==
    LET at == {i \in DOMAIN rows : rows[i].game_type = game}
    IN  IF at = {} THEN 0
        ELSE rows[CHOOSE i \in at : \A j \in at : j <= i][column]

\* GET /stats/me, once the middleware has called next(): the SELECT of the
\* rows of this user and the profile built from them
StatsMe(header) ==
    /\ authenticateToken(header, now).reply = NoReply
    /\ LET rows == SelectStatsOf(game_stats, authenticateToken(header, now).user[1].id)
       IN  reply' = [status |-> 200,
                     body |-> [scores |-> [g \in KnownGames |-> ProfileValue(rows, g, "total_score")],
                               highScores |-> [g \in KnownGames |-> ProfileValue(rows, g, "high_score")],
                               hours |-> [g \in KnownGames |-> ProfileValue(rows, g, "total_hours")]]]
    /\ mail' = NULL
    /\ UNCHANGED <<users, now, inflight, spent, game_stats, submitted>>

\* time passes, up to the day a token is valid
DayTick(d) ==
    /\ now + d <= MaxDayClock
    /\ now' = now + d
    /\ reply' = NoReply
    /\ mail' = NULL
    /\ UNCHANGED <<users, inflight, spent, game_stats, submitted>>

\* two users have registered and logged in
StatsInit ==
    /\ users = StatsUsers
    /\ now = 0
    /\ inflight = [r \in Reqs |-> Idle]
    /\ reply = NoReply
    /\ mail = NULL
    /\ spent = NULL
    /\ game_stats = <<>>
    /\ submitted = NoScores

StatsNext ==
    \/ \E h \in AuthHeaders : BearerRefuses(h)
    \/ \E r \in Reqs, h \in AuthHeaders, g \in GameTypes, s \in Scores, d \in Durations :
          StatsUpdateRecv(r, h, g, s, d)
    \/ \E r \in Reqs : StatsUpdateWrite(r)
    \/ \E h \in AuthHeaders : StatsMe(h)
    \/ \E d \in DaySteps : DayTick(d)

StatsSpec == StatsInit /\ [][StatsNext]_vars

----------------------------------------------------------------------------
(* The properties *)

\* the row of table tbl with this id
RowById(tbl, id) == CHOOSE row \in {tbl[i] : i \in DOMAIN tbl} : row.id = id

\* the state of a user row at clock t: Active, ResetPending or ResetExpired
UserState(row, t) ==
    IF row.reset_token = NULL THEN "Active"
    ELSE IF t > DateOf(row.reset_expires) THEN "ResetExpired"
    ELSE "ResetPending"

\* the passwords and codes a client may try
AnyPassword == (Passwords \cup NewPasswords) \ {""}
AnyToken == Tokens \ {<<>>}

InvalidCredentials == Msg(400, "Credenciais incorretas.")
CodeMismatch == Msg(400, "Código inválido.")
CodeExpired == Msg(400, "Código expirado.")

\* C1: in every reachable state, every user row has reset_token and
\* reset_expires both set or both null.
C1_ResetFieldsTogether ==
    \A i \in DOMAIN users :
        (users[i].reset_token = NULL) <=> (users[i].reset_expires = NULL)

\* a forgot-password has written a code and an expiry on a row
C1_Witness ==
    \E i \in DOMAIN users :
        users[i].reset_token # NULL /\ users[i].reset_expires # NULL

\* the request (email, token, newPassword) meets the preconditions of C2 on
\* table tbl at clock t: the user exists with the pending code token, the
\* password has 6 characters or more, and t is not later than the expiry
ResetIsDue(tbl, t, email, token, newPassword) ==
    /\ email # "" /\ token # <<>> /\ Len(newPassword) >= 6
    /\ Len(SelectByEmail(tbl, email)) > 0
    /\ SelectByEmail(tbl, email)[1].reset_token = Some(token)
    /\ t <= DateOf(SelectByEmail(tbl, email)[1].reset_expires)

\* a reset that is due passes the checks of the handler, and writes nothing yet
ResetDuePasses ==
    \A i \in DOMAIN users :
        (users[i].reset_token # NULL /\ users' = users /\ now' = now) =>
            \A p \in NewPasswords, r \in Reqs :
                (/\ ResetIsDue(users, now, users[i].email, users[i].reset_token[1], p)
                 /\ ResetRecv(r, users[i].email, users[i].reset_token[1], p))
                    => /\ reply' = NoReply
                       /\ inflight'[r].pc = "rp_update"
                       /\ inflight'[r].newPassword = p
                       /\ inflight'[r].user.id = users[i].id

\* what the write of a reset does, but for the logins that fail afterwards
ResetWriteEffect(r) ==
    LET id == inflight[r].user.id
        new == inflight[r].newPassword
        row == RowById(users', id)
    IN  /\ reply' = Msg(200, "Senha alterada com sucesso.")
        /\ row.reset_token = NULL /\ row.reset_expires = NULL
        /\ LoginReply(users', now', row.email, new).status = 200
        /\ LoginReply(users', now', row.email, new).body.user.id = id

\* C2 as stated: a ResetPassword with the stored code, a password of 6 or
\* more characters and before the expiry succeeds, nulls reset_token and
\* reset_expires, issues no token, and afterwards Login with newPassword
\* succeeds while Login with the old password fails with InvalidCredentials.
C2_AsStated ==
    [][/\ ResetDuePasses
       /\ \A r \in Reqs :
            (inflight[r].pc = "rp_update" /\ \E s \in Salts : ResetUpdate(r, s)) =>
                /\ ResetWriteEffect(r)
                /\ LET id == inflight[r].user.id
                   IN  \A old \in AnyPassword :
                         bcryptCompare(old, RowById(users, id).password_hash) =>
                             LoginReply(users', now', RowById(users, id).email, old)
                                 = InvalidCredentials]_vars

\* C2, amended: as C2, except that the old password fails afterwards only
\* when newPassword differs from it: after the reset, Login succeeds with
\* newPassword and fails with InvalidCredentials with every other password.
C2_ResetThenLogin ==
    [][/\ ResetDuePasses
       /\ \A r \in Reqs :
            (inflight[r].pc = "rp_update" /\ \E s \in Salts : ResetUpdate(r, s)) =>
                /\ ResetWriteEffect(r)
                /\ LET id == inflight[r].user.id
                   IN  \A other \in AnyPassword \ {inflight[r].newPassword} :
                         LoginReply(users', now', RowById(users, id).email, other)
                             = InvalidCredentials]_vars

\* a reset has just replaced the password of a user
C2_Witness ==
    /\ reply = Msg(200, "Senha alterada com sucesso.")
    /\ \E i \in DOMAIN users :
          /\ users[i].reset_token = NULL /\ users[i].reset_expires = NULL
          /\ bcryptCompare("secret2", users[i].password_hash)
          /\ LoginReply(users, now, users[i].email, "secret2").status = 200

\* the passwords that log the user of this row in
PasswordsOf(row) == {p \in AnyPassword : bcryptCompare(p, row.password_hash)}

\* C3: a well-formed ResetPassword with the stored code, submitted when the
\* clock is later than the stored expiry, fails with CodeExpired (400) and
\* leaves the table as it was, with no write to come; the old password
\* still logs in.
C3_ExpiredCodeRejected ==
    [][\A i \in DOMAIN users :
         (users[i].reset_token # NULL /\ now > DateOf(users[i].reset_expires)) =>
            \A p \in NewPasswords, r \in Reqs :
                (Len(p) >= 6 /\ ResetRecv(r, users[i].email, users[i].reset_token[1], p))
                    => /\ reply' = CodeExpired
                       /\ users' = users
                       /\ inflight' = inflight
                       /\ PasswordsOf(users[i]) # {}
                       /\ \A old \in PasswordsOf(users[i]) :
                            LoginReply(users', now', users[i].email, old).status = 200]_vars

\* a reset has just been refused as expired, and the code is still stored
C3_Witness ==
    /\ reply = CodeExpired
    /\ \E i \in DOMAIN users :
          /\ users[i].reset_token # NULL
          /\ now > DateOf(users[i].reset_expires)

\* C4: a well-formed ResetPassword for an existing user with a code that is
\* not the stored one fails with CodeMismatch (400) and leaves the table as
\* it was, however often it is repeated: the code and the expiry stay, and
\* a reset with the real code that was due before is still due.
C4_WrongCodeRejected ==
    [][\A i \in DOMAIN users :
         \A t \in AnyToken, p \in NewPasswords, r \in Reqs :
            (/\ Some(t) # users[i].reset_token
             /\ Len(p) >= 6
             /\ ResetRecv(r, users[i].email, t, p))
                => /\ reply' = CodeMismatch
                   /\ users' = users
                   /\ inflight' = inflight
                   /\ \A real \in AnyToken, q \in NewPasswords :
                        ResetIsDue(users, now, users[i].email, real, q)
                            => ResetChecks(users', now', users[i].email, real, q) = NoReply]_vars

\* a wrong code has just been refused while the real one is pending and due
C4_Witness ==
    /\ reply = CodeMismatch
    /\ \E i \in DOMAIN users, real \in AnyToken :
          ResetIsDue(users, now, users[i].email, real, "secret2")

\* C5: a Register with all fields present and the email of an existing row
\* (an exact match) fails with DuplicateEmail (400), inserts no row and
\* leaves no INSERT to come, in every reachable state.
C5_DuplicateEmailRejected ==
    [][\A i \in DOMAIN users :
         \A n \in Names \ {""}, p \in Passwords \ {""}, r \in Reqs :
            RegisterRecv(r, n, users[i].email, p)
                => /\ reply' = Msg(400, "Email já cadastrado.")
                   /\ users' = users
                   /\ inflight' = inflight]_vars

\* a Register has just been refused as a duplicate
C5_Witness ==
    /\ reply = Msg(400, "Email já cadastrado.")
    /\ Len(users) = 1

\* C6: a Register with all fields present and an email that has no row
\* passes the checks; its INSERT answers 201 with the id of the new row, and
\* then a Login with the same email and password succeeds with a token whose
\* verification yields the claims of that id.
C6_RegisterThenLogin ==
    [][/\ \A n \in Names \ {""}, e \in Emails \ {""}, p \in Passwords \ {""}, r \in Reqs :
            (Len(SelectByEmail(users, e)) = 0 /\ RegisterRecv(r, n, e, p))
                => /\ reply' = NoReply
                   /\ inflight'[r] = [pc |-> "reg_insert", name |-> n, email |-> e, password |-> p]
       /\ \A r \in Reqs :
            (/\ inflight[r].pc = "reg_insert"
             /\ Len(SelectByEmail(users, inflight[r].email)) = 0
             /\ \E s \in Salts : RegisterInsert(r, s))
                => /\ reply'.status = 201
                   /\ RowById(users', reply'.body.user.id).email = inflight[r].email
                   /\ LET login == LoginReply(users', now', inflight[r].email, inflight[r].password)
                      IN  /\ login.status = 200
                          /\ jwtVerify(login.body.token, JWT_SECRET, now') # NULL
                          /\ jwtVerify(login.body.token, JWT_SECRET, now')[1].id
                                 = reply'.body.user.id]_vars

\* an account has just been created
C6_Witness ==
    /\ reply.status = 201
    /\ \E i \in DOMAIN users : users[i].id = reply.body.user.id

\* C7: in every reachable state, a Login with a wrong password for an
\* existing email and a Login with an email that has no row get the same
\* response, status and body: InvalidCredentials.
C7_LoginAntiEnumeration ==
    \A e1 \in Emails \ {""}, e2 \in Emails \ {""} :
        (Len(SelectByEmail(users, e1)) > 0 /\ Len(SelectByEmail(users, e2)) = 0) =>
            \A p1 \in AnyPassword \ PasswordsOf(SelectByEmail(users, e1)[1]), p2 \in AnyPassword :
                /\ LoginReply(users, now, e1, p1) = LoginReply(users, now, e2, p2)
                /\ LoginReply(users, now, e1, p1) = InvalidCredentials

\* a Login has just been refused while an account exists
C7_Witness ==
    /\ reply = InvalidCredentials
    /\ Len(users) = 1

SixDigitCode(code) ==
    /\ Len(code) = 6
    /\ \A i \in 1 .. 6 : code[i] \in DigitChars
    /\ ParseDigits(code) >= 100000 /\ ParseDigits(code) <= 999999

\* C8: a ForgotPassword for an existing email draws a code of 6 decimal
\* digits in 100000 .. 999999 and an expiry of exactly 15 minutes after the
\* clock it read, and its UPDATE stores that code and that expiry on the row
\* of the user, a pending reset as of the time of issuance.
C8_ForgotStoresCode ==
    [][\A r \in Reqs :
         /\ (inflight[r].pc = "idle" /\ inflight'[r].pc = "fp_update")
                => /\ SixDigitCode(inflight'[r].code)
                   /\ inflight'[r].expires = now + 900000
         /\ (inflight[r].pc = "fp_update" /\ ForgotUpdate(r))
                => LET c == inflight[r]
                       row == RowById(users', c.user.id)
                   IN  /\ row.email = c.email
                       /\ row.reset_token = Some(c.code)
                       /\ row.reset_expires = Some(c.expires)
                       /\ SixDigitCode(row.reset_token[1])
                       /\ UserState(row, c.expires - 900000) = "ResetPending"]_vars

\* a ForgotPassword has just succeeded and its code is the pending one
C8_Witness ==
    /\ reply = Msg(200, "Código enviado para o email.")
    /\ \E i \in DOMAIN users :
          /\ users[i].reset_token = Some(mail[1].code)
          /\ UserState(users[i], now) = "ResetPending"

\* the error of the first precondition of a chain that fails (NoReply: none)
FirstFailure(chain) ==
    IF \A i \in DOMAIN chain : chain[i].ok THEN NoReply
    ELSE chain[CHOOSE i \in DOMAIN chain :
                   ~chain[i].ok /\ \A j \in 1 .. i - 1 : chain[j].ok].err

HasRow(e) == \E i \in DOMAIN users : users[i].email = e

\* the preconditions of each operation, each one stated on its own, in the
\* order shape, existence, state
RegisterChain(n, e, p) ==
    << [ok |-> n # "" /\ e # "" /\ p # "", err |-> Msg(400, "Preencha todos os campos.")],
       [ok |-> ~HasRow(e), err |-> Msg(400, "Email já cadastrado.")] >>

LoginChain(e, p) ==
    << [ok |-> e # "" /\ p # "", err |-> Msg(400, "Preencha todos os campos.")],
       [ok |-> HasRow(e), err |-> InvalidCredentials],
       [ok |-> \E i \in DOMAIN users :
                   users[i].email = e /\ bcryptCompare(p, users[i].password_hash),
        err |-> InvalidCredentials] >>

ForgotChain(e) ==
    << [ok |-> e # "", err |-> Msg(400, "Informe o email.")],
       [ok |-> HasRow(e), err |-> Msg(400, "Email não encontrado.")] >>

ResetChain(e, t, p) ==
    << [ok |-> e # "" /\ t # <<>> /\ p # "", err |-> Msg(400, "Dados incompletos.")],
       [ok |-> Len(p) >= 6, err |-> Msg(400, "Senha curta demais.")],
       [ok |-> HasRow(e), err |-> Msg(400, "Usuário não encontrado.")],
       [ok |-> \E i \in DOMAIN users : users[i].email = e /\ users[i].reset_token = Some(t),
        err |-> CodeMismatch],
       [ok |-> \E i \in DOMAIN users : users[i].email = e /\ now <= DateOf(users[i].reset_expires),
        err |-> CodeExpired] >>

\* in this state every operation answers every request with the error of
\* its first failing precondition, and goes on when none fails
FirstFailureDecides ==
    /\ \A n \in Names, e \in RegisterEmails, p \in Passwords :
          RegisterChecks(users, n, e, p) = FirstFailure(RegisterChain(n, e, p))
    /\ \A e \in Emails, p \in Passwords :
          IF FirstFailure(LoginChain(e, p)) = NoReply
          THEN LoginReply(users, now, e, p).status = 200
          ELSE LoginReply(users, now, e, p) = FirstFailure(LoginChain(e, p))
    /\ \A e \in Emails : ForgotChecks(users, e) = FirstFailure(ForgotChain(e))
    /\ \A e \in Emails, t \in Tokens, p \in NewPasswords :
          ResetChecks(users, now, e, t, p) = FirstFailure(ResetChain(e, t, p))

\* C9: every operation checks shape, then existence, then state (code, then
\* expiry), and answers with the error of the first check that fails also
\* when later ones fail too; a step that answers with such an error writes
\* nothing to the table, sends no mail and leaves no continuation.
C9_FirstFailureWins ==
    /\ []FirstFailureDecides
    /\ [][reply'.status = 400 =>
            /\ users' = users
            /\ inflight' = inflight
            /\ mail' = NULL]_vars

\* a wrong code has just been refused on a window that has expired as well
C9_Witness ==
    /\ reply = CodeMismatch
    /\ \E i \in DOMAIN users :
          /\ users[i].reset_token # NULL
          /\ now > DateOf(users[i].reset_expires)

\* C10: when the mail dispatch of a ForgotPassword fails after its UPDATE,
\* the response is EmailDeliveryError (500), the table is left as it was (no
\* rollback), the handler ends without another dispatch, and a well-formed
\* ResetPassword with the code, while it is the stored one and the expiry has
\* not passed, passes the checks.
C10_MailFailureKeepsCode ==
    [][\A r \in Reqs :
         (inflight[r].pc = "fp_mail" /\ ForgotMailFails(r)) =>
            LET c == inflight[r]
                row == RowById(users', c.user.id)
            IN  /\ reply' = Msg(500, "Erro ao enviar email.")
                /\ users' = users
                /\ inflight'[r] = Idle
                /\ mail' = Some([to |-> c.email, name |-> c.user.name,
                                 code |-> c.code, delivered |-> FALSE])
                /\ (row.reset_token = Some(c.code) /\ now' <= DateOf(row.reset_expires))
                       => \A p \in {q \in NewPasswords : Len(q) >= 6} :
                            ResetChecks(users', now', c.email, c.code, p) = NoReply]_vars

\* the dispatch has just failed, and the code of that mail is stored and due
C10_Witness ==
    /\ reply = Msg(500, "Erro ao enviar email.")
    /\ mail # NULL
    /\ ~mail[1].delivered
    /\ \E i \in DOMAIN users :
          /\ users[i].reset_token = Some(mail[1].code)
          /\ ResetIsDue(users, now, mail[1].to, mail[1].code, "secret2")

\* C11: a forgot-password comes to its dispatch only by the step in which
\* its UPDATE stored its code and its expiry on the row of the user; every
\* dispatch is of the code of a request that has come there, to the email of
\* a row; an UPDATE that rejects ends the request without a dispatch, and a
\* request answered "email not found" dispatches nothing and goes no further.
C11_MailAfterStore ==
    [][/\ \A r \in Reqs :
            (inflight'[r].pc = "fp_mail" /\ inflight[r].pc # "fp_mail") =>
                /\ inflight[r].pc = "fp_update"
                /\ inflight'[r].code = inflight[r].code
                /\ RowById(users', inflight[r].user.id).reset_token = Some(inflight[r].code)
                /\ RowById(users', inflight[r].user.id).reset_expires = Some(inflight[r].expires)
       /\ mail' # NULL =>
            \E r \in Reqs :
                /\ inflight[r].pc = "fp_mail"
                /\ inflight'[r] = Idle
                /\ mail'[1].code = inflight[r].code
                /\ mail'[1].to = inflight[r].email
                /\ HasRow(inflight[r].email)
       /\ \A r \in Reqs :
            (inflight[r].pc = "fp_update" /\ ForgotUpdateFails(r)) =>
                /\ mail' = NULL
                /\ users' = users
                /\ inflight'[r] = Idle
       /\ reply' = Msg(400, "Email não encontrado.") =>
            /\ mail' = NULL
            /\ inflight' = inflight]_vars

\* a mail has just been dispatched, and its code and an expiry are stored on
\* the row of its addressee
C11_Witness ==
    /\ mail # NULL
    /\ \E i \in DOMAIN users :
          /\ users[i].email = mail[1].to
          /\ users[i].reset_token = Some(mail[1].code)
          /\ users[i].reset_expires # NULL

\* C12: of two forgot-password requests in flight for one user, the UPDATE
\* that is applied later replaces whatever the table held by its own code
\* and expiry, and the dispatches that follow write nothing, so that this
\* code and expiry are the stored ones when both have completed; the code
\* mailed by the request that wrote first, when it differs from the stored
\* one, is then refused by a well-formed ResetPassword with CodeMismatch.
C12_LastForgotWins ==
    [][\A r \in Reqs :
         /\ \A o \in Reqs \ {r} :
               (/\ inflight[r].pc = "fp_update"
                /\ inflight[o].pc \in {"fp_update", "fp_mail"}
                /\ inflight[o].user.id = inflight[r].user.id
                /\ ForgotUpdate(r))
                   => /\ RowById(users', inflight[r].user.id).reset_token
                            = Some(inflight[r].code)
                      /\ RowById(users', inflight[r].user.id).reset_expires
                            = Some(inflight[r].expires)
         /\ (inflight[r].pc = "fp_mail" /\ inflight'[r] = Idle) =>
               /\ users' = users
               /\ mail' # NULL /\ mail'[1].code = inflight[r].code
               /\ RowById(users, inflight[r].user.id).reset_token
                       \notin {NULL, Some(inflight[r].code)}
                     => \A p \in {q \in NewPasswords : Len(q) >= 6} :
                          ResetChecks(users', now', inflight[r].email, inflight[r].code, p)
                              = CodeMismatch]_vars

\* a forgot-password has just mailed its code and been answered 200 while
\* the stored code is the one of another request, and a ResetPassword with
\* the mailed code is refused with CodeMismatch
C12_Witness ==
    /\ reply = Msg(200, "Código enviado para o email.")
    /\ mail # NULL
    /\ \E i \in DOMAIN users :
          /\ users[i].email = mail[1].to
          /\ users[i].reset_token \notin {NULL, Some(mail[1].code)}
          /\ ResetChecks(users, now, mail[1].to, mail[1].code, "secret2") = CodeMismatch

\* the token of a header: the second of its parts, when it is there and not empty
BearerToken(header) ==
    IF Len(header) >= 2 /\ header[2] # NotAJwt("") THEN Some(header[2]) ELSE NULL

\* the token is a JWT signed with the secret, issued less than one day (in
\* whole seconds) before clock t
TokenIsGood(token, t) ==
    /\ DOMAIN token = {"payload", "sig"}
    /\ token.sig = JWT_SECRET
    /\ (t \div 1000) - token.payload.iat < 24 * 60 * 60

\* what the claim has the middleware answer to a header at clock t
\* (NoReply: the handler runs)
BearerVerdict(header, t) ==
    IF BearerToken(header) = NULL THEN Msg(401, "Acesso negado.")
    ELSE IF ~TokenIsGood(BearerToken(header)[1], t) THEN Msg(403, "Token inválido.")
    ELSE NoReply

\* the tokens that logins at clock 0 have issued, and the claims put in each
IssuedTokens ==
    {[token |-> generateToken(StatsUsers[i], 0),
      id |-> StatsUsers[i].id, email |-> StatsUsers[i].email] : i \in DOMAIN StatsUsers}

\* in this state the middleware answers every header as the claim has it,
\* and passes on the claims put in the token at issuance
MiddlewareDecides ==
    \A h \in AuthHeaders :
        /\ authenticateToken(h, now).reply = BearerVerdict(h, now)
        /\ BearerVerdict(h, now) = NoReply =>
              \E issued \in IssuedTokens :
                  /\ issued.token = BearerToken(h)[1]
                  /\ issued.id = authenticateToken(h, now).user[1].id
                  /\ issued.email = authenticateToken(h, now).user[1].email

\* C13: the middleware lets a request to /stats/update or /stats/me through
\* exactly when its header carries a token that is a JWT signed with the
\* secret and issued less than one day before, answers 401 when there is no
\* token and 403 for any other token, and then nothing is written or left in
\* flight; a handler runs only for a request let through, for the id and
\* email put in its token at issuance; game_stats is changed only by a
\* request that was let through.
C13_BearerOnly ==
    /\ []MiddlewareDecides
    /\ [][/\ \A h \in AuthHeaders :
                /\ (reply'.status \in {401, 403} /\ BearerRefuses(h)) =>
                      /\ reply' = BearerVerdict(h, now)
                      /\ inflight' = inflight
                      /\ game_stats' = game_stats
                /\ \A r \in Reqs :
                      (/\ inflight[r].pc = "idle" /\ inflight'[r].pc = "su_write"
                       /\ \E g \in GameTypes, s \in Scores, d \in Durations :
                             StatsUpdateRecv(r, h, g, s, d))
                          => /\ BearerVerdict(h, now) = NoReply
                             /\ inflight'[r].user.id = BearerToken(h)[1].payload.id
                             /\ inflight'[r].user.email = BearerToken(h)[1].payload.email
                /\ (reply'.status = 200 /\ game_stats' = game_stats /\ StatsMe(h)) =>
                      /\ BearerVerdict(h, now) = NoReply
                      /\ \A g \in GameTypes :
                            reply'.body.scores[g] =
                                ProfileValue(SelectStatsOf(game_stats, BearerToken(h)[1].payload.id),
                                             g, "total_score")
          /\ reply'.status \in {401, 403} =>
                /\ inflight' = inflight
                /\ game_stats' = game_stats
          /\ (\E r \in Reqs : inflight[r].pc = "idle" /\ inflight'[r].pc = "su_write") =>
                \E h \in AuthHeaders : BearerVerdict(h, now) = NoReply
          /\ game_stats' # game_stats =>
                \E r \in Reqs :
                    /\ inflight[r].pc = "su_write"
                    /\ inflight'[r] = Idle
                    /\ \E issued \in IssuedTokens :
                          /\ issued.id = inflight[r].user.id
                          /\ issued.email = inflight[r].user.email]_vars

\* a token has just been refused with 403 one day after the logins, after
\* the handler has run and written for a token that verified
C13_Witness ==
    /\ reply = Msg(403, "Token inválido.")
    /\ now >= 24 * 60 * 60 * 1000
    /\ game_stats # <<>>

\* the code of a ResetPassword that has passed the checks, as it read it
CodeOf(c) == [id |-> c.user.id, token |-> c.token, expires |-> c.user.reset_expires]

\* the write of ResetPassword request r is applied and answered 200 in this step
ResetSucceeds(r) ==
    /\ inflight[r].pc = "rp_update"
    /\ inflight'[r] = Idle
    /\ reply' = Msg(200, "Senha alterada com sucesso.")

\* C14: while no code is stored for a user, every well-formed ResetPassword
\* for that user, with whatever code, is answered CodeMismatch and writes
\* nothing: the one that arrives, and the one that is in flight and comes
\* to its write.
C14_SingleUse ==
    [][\A i \in DOMAIN users :
         users[i].reset_token = NULL =>
            /\ \A r \in Reqs :
                  (inflight[r].pc = "rp_update" /\ inflight[r].user.id = users[i].id
                   /\ inflight'[r] = Idle)
                      => reply' = CodeMismatch /\ users' = users
            /\ \A t \in AnyToken, p \in {q \in NewPasswords : Len(q) >= 6}, r \in Reqs :
                  ResetRecv(r, users[i].email, t, p)
                      => reply' = CodeMismatch /\ users' = users /\ inflight' = inflight]_vars

\* the table with the reset fields of row i replaced
WithResetFields(tbl, i, token, expires) ==
    [tbl EXCEPT ![i] = [@ EXCEPT !.reset_token = token, !.reset_expires = expires]]

\* the reset fields of a row that is Active, ResetPending and ResetExpired at clock t
ResetFieldsAt(t) ==
    {[token |-> NULL, expires |-> NULL]}
    \cup {[token |-> Some(c), expires |-> Some(e)] : c \in AnyToken, e \in {t, t - 1}}

\* C16: in every reachable state, Login for an existing user succeeds with
\* the passwords that match the stored hash and fails with
\* InvalidCredentials with every other one, and answers the same whatever
\* the reset fields of the row are (Active, ResetPending, ResetExpired); no
\* step of ForgotPassword changes a password_hash, and Login writes nothing.
C16_ResetStateNoLoginEffect ==
    /\ [](\A i \in DOMAIN users, p \in AnyPassword :
            /\ IF bcryptCompare(p, users[i].password_hash)
               THEN /\ LoginReply(users, now, users[i].email, p).status = 200
                    /\ LoginReply(users, now, users[i].email, p).body.user.id = users[i].id
               ELSE LoginReply(users, now, users[i].email, p) = InvalidCredentials
            /\ \A f \in ResetFieldsAt(now) :
                  LoginReply(WithResetFields(users, i, f.token, f.expires), now, users[i].email, p)
                      = LoginReply(users, now, users[i].email, p))
    /\ [][/\ \A r \in Reqs :
                (inflight[r].pc \in {"fp_update", "fp_mail"} /\ inflight'[r] # inflight[r]) =>
                    /\ Len(users') = Len(users)
                    /\ \A i \in DOMAIN users :
                          users'[i].password_hash = users[i].password_hash
          /\ (\E r \in Reqs : inflight[r].pc = "idle" /\ inflight'[r].pc = "fp_update") =>
                users' = users
          /\ \A e \in Emails, p \in Passwords :
                (inflight' = inflight /\ now' = now /\ Login(e, p)) => users' = users]_vars

\* a Login has just succeeded for a user whose reset code has expired
C16_Witness ==
    /\ reply.status = 200
    /\ DOMAIN reply.body = {"token", "user"}
    /\ \E i \in DOMAIN users :
          /\ users[i].id = reply.body.user.id
          /\ UserState(users[i], now) = "ResetExpired"

\* C17: the table never holds two rows with one email, and of the Register
\* requests in flight for an email that had no row when they checked, the
\* INSERT that comes first is answered 201 and adds the row, and an INSERT
\* that comes when the row is there is answered DuplicateEmail (400) and
\* adds nothing.
C17_RacingRegister ==
    /\ [](\A i \in DOMAIN users, j \in DOMAIN users :
            users[i].email = users[j].email => i = j)
    /\ [][\A r \in Reqs :
            (inflight[r].pc = "reg_insert" /\ inflight'[r] = Idle) =>
                IF Len(SelectByEmail(users, inflight[r].email)) = 0
                THEN /\ reply'.status = 201
                     /\ Len(SelectByEmail(users', inflight[r].email)) = 1
                ELSE /\ reply' = Msg(400, "Email já cadastrado.")
                     /\ users' = users]_vars

\* C18: no ResetPassword is answered 200 with a code (its digits and expiry,
\* for one user) with which another ResetPassword has been answered 200
\* since that code was stored.
C18_OneResetPerCode ==
    [][\A r \in Reqs : ResetSucceeds(r) => spent # Some(CodeOf(inflight[r]))]_vars

\* C19: whenever the write of a ResetPassword is applied, the code the
\* request was submitted with is the reset_token stored at that moment, and
\* the clock is not later than the reset_expires stored at that moment.
C19_WriteRevalidates ==
    [][\A r \in Reqs :
         ResetSucceeds(r) =>
            LET row == RowById(users, inflight[r].user.id)
            IN  /\ row.reset_token = Some(inflight[r].token)
                /\ now <= DateOf(row.reset_expires)]_vars

\* the replies of the two kinds of internal failure
StoreError == Msg(500, "Erro no servidor.")

EmailDeliveryError == Msg(500, "Erro ao enviar email.")

\* a query of the store rejects in this step, in a route other than forgot-password
StoreFailsElsewhere ==
    \/ \E r \in Reqs : RegisterInsertFails(r) \/ ResetUpdateFails(r)
    \/ /\ inflight' = inflight
       /\ \/ \E r \in Reqs, n \in Names, e \in RegisterEmails, p \in Passwords :
                RegisterSelectFails(r, n, e, p)
          \/ \E e \in Emails, p \in Passwords : LoginSelectFails(e, p)
          \/ \E r \in Reqs, e \in Emails, t \in Tokens, p \in NewPasswords :
                ResetSelectFails(r, e, t, p)

\* a query of the store rejects in this step, in forgot-password
StoreFailsInForgot ==
    \/ \E r \in Reqs : ForgotUpdateFails(r)
    \/ inflight' = inflight /\ \E r \in Reqs, e \in Emails : ForgotSelectFails(r, e)

\* C15: with a store that may reject any query, a step in which a query of
\* Register, Login, ForgotPassword or ResetPassword rejects is answered
\* StoreError (500 "Erro no servidor."), and EmailDeliveryError is answered
\* only by a step in which the dispatch of the mail was made and failed.
C15_StoreVsMail ==
    [][/\ (reply'.status = 500 /\ (StoreFailsElsewhere \/ StoreFailsInForgot)) =>
            reply' = StoreError
       /\ reply' = EmailDeliveryError =>
            /\ mail' # NULL
            /\ ~mail'[1].delivered]_vars

\* the sum and the greatest of the scores of a bag
RECURSIVE SumOf(_, _)
SumOf(scores, left) ==
    IF left = {} THEN 0
    ELSE LET x == CHOOSE y \in left : TRUE
         IN  x * CopiesIn(x, scores) + SumOf(scores, left \ {x})

TotalOf(scores) == SumOf(scores, BagToSet(scores))

HighestOf(scores) == CHOOSE x \in BagToSet(scores) : \A y \in BagToSet(scores) : y <= x

\* no /stats/update of this user and game is between its SELECT and its write
Settled(pair) ==
    \A r \in Reqs :
        inflight[r].pc = "su_write" => <<inflight[r].user.id, inflight[r].gameType>> # pair

\* C20: for every (user, gameType) with no /stats/update in flight,
\* game_stats holds at most one row of the pair, and once an update of the
\* pair has been answered 200 it holds one, whose total_score is the sum and
\* whose high_score is the greatest of the scores of the updates answered 200.
C20_StatsAddUp ==
    \A pair \in UserIds \X GameTypes :
        Settled(pair) =>
            LET rows == SelectStats(game_stats, pair[1], pair[2])
            IN  /\ Len(rows) <= 1
                /\ BagToSet(submitted[pair]) # {} =>
                      /\ Len(rows) = 1
                      /\ rows[1].total_score = TotalOf(submitted[pair])
                      /\ rows[1].high_score = HighestOf(submitted[pair])

====
